---- MODULE Spec2Model ----
(***************************************************************************)
(* GwenOS hardware layer: the VGA text console (src/src/vga.rs) and the    *)
(* COM1 serial transmitter (src/src/serial.rs).                            *)
(*                                                                         *)
(* The console is the global WRITER (cursor, current attribute, the 80x25  *)
(* volatile cell array).  Every Writer method is an operator on an         *)
(* execution record: the Writer's fields plus three observation fields     *)
(* (stores, scrolls, panicked) that record what the method did.            *)
(*                                                                         *)
(* The kernel part is the trap table of src/src/interrupts.rs (init, the   *)
(* two handlers, test_breakpoint) run as contexts on a stack that share    *)
(* the SERIAL1 lock and the UART, and _start of src/src/main.rs.           *)
(***************************************************************************)
EXTENDS Integers, Sequences, FiniteSets, TLC

\* ------------------------------------------------------------ constants

VGA_WIDTH == 80

VGA_HEIGHT == 25

\* b'\n'
LF == 10

\* the glyph written for a byte that is not printable (0xfe)
UNKNOWN_GLYPH == 254

\* b' '
BLANK == 32

\* Color::Black, Color::White
Black == 0

White == 15

\* ColorCode::new: (background as u8) << 4 | (foreground as u8).  Both are
\* 4-bit enum values, so the two operands of | share no bit.
ColorCode_new(foreground, background) ==
    ((background * 16) % 256) + foreground

\* COM1 base port (0x3F8) and the register offsets used to transmit
COM1_PORT == 1016

DATA_REG == 0

LINE_STATUS_REG == 5

\* the register offsets programmed by init
INT_ENABLE_REG == 1

FIFO_CTRL_REG == 2

LINE_CTRL_REG == 3

MODEM_CTRL_REG == 4

\* ------------------------------------------------------------ bounds

\* number of console operations in one run
MaxOps == 2

\* number of public serial operations in one run
MaxCalls == 2

\* status reads of one operation that find the transmitter busy
MaxPolls == 2

\* number of public kernel operations the boot context calls in one run
MaxKernelCalls == 2

\* number of traps raised from outside the running code in one run
MaxTraps == 1

\* ------------------------------------------------------------ inputs

Min(a, b) == IF a < b THEN a ELSE b

Rep(n, b) == [i \in 1..n |-> b]

\* "Hello, GwenOS!"
Hello == <<72, 101, 108, 108, 111, 44, 32, 71, 119, 101, 110, 79, 83, 33>>

\* one full row of 'x'
FillRow == Rep(VGA_WIDTH, 120)

\* down to the last row
ToLastRow == Rep(VGA_HEIGHT - 1, LF)

\* strings given to write_string: the empty string, printable text, line
\* feeds, control bytes, the edges of the printable range (0x1f 0x20 0x7e
\* 0x7f), a two-byte UTF-8 character, a full row, the last row filled, and
\* one line feed for every row of the screen
Strings ==
    { <<>>, <<65>>, <<LF>>, <<65, 7, 66>>, <<31, 32, 126, 127>>,
      <<65, LF, 195, 169>>, FillRow, ToLastRow, ToLastRow \o FillRow,
      Rep(VGA_HEIGHT, LF) }

\* bytes given to Writer::write_byte
Bytes == {LF, 65, 7}

\* attributes given to set_color and write_string_at (0x0a green on black,
\* 0x4f white on red)
Colors == {10, 79}

\* strings, rows, columns and the attribute given to write_string_at: a row
\* inside, the last row and the first row outside; columns where the text
\* fits, ends exactly at the right edge (66 + 14), is cut (78) and starts
\* outside
AtStrings == {Hello, <<66, LF, 200>>}

AtRows == {12, VGA_HEIGHT - 1, VGA_HEIGHT}

AtCols == {33, 66, 78, VGA_WIDTH}

AtColors == {10}

\* values the UART returns for the line-status register: nothing set,
\* transmitter idle without holding register empty (0x40), holding register
\* empty (0x20), both (0x60)
LineStatusValues == {0, 64, 32, 96}

\* strings and bytes given to the serial operations: "", "OK", "H\n"
SerialStrings == {<<>>, <<79, 75>>, <<72, LF>>}

SerialBytes == {65}

\* the texts of src/src/interrupts.rs, byte by byte
\* "43 times '='"
RuleLine == Rep(43, 61)

\* "  EXCEPTION: Breakpoint (int3)"
BreakpointTitle == 
    <<32, 32, 69, 88, 67, 69, 80, 84, 73, 79, 78, 58, 32, 66, 114, 101, 97,
      107, 112, 111, 105, 110, 116, 32, 40, 105, 110, 116, 51, 41>>

\* "  Instruction Pointer: "
InstructionPointer == 
    <<32, 32, 73, 110, 115, 116, 114, 117, 99, 116, 105, 111, 110, 32, 80,
      111, 105, 110, 116, 101, 114, 58, 32>>

\* "(see QEMU for details)"
SeeQemu == 
    <<40, 115, 101, 101, 32, 81, 69, 77, 85, 32, 102, 111, 114, 32, 100, 101,
      116, 97, 105, 108, 115, 41>>

\* "  Breakpoint handled, continuing..."
BreakpointHandled == 
    <<32, 32, 66, 114, 101, 97, 107, 112, 111, 105, 110, 116, 32, 104, 97,
      110, 100, 108, 101, 100, 44, 32, 99, 111, 110, 116, 105, 110, 117, 105,
      110, 103, 46, 46, 46>>

\* "42 times '!'"
BangLine == Rep(42, 33)

\* "  EXCEPTION: Double Fault!"
DoubleFaultTitle == 
    <<32, 32, 69, 88, 67, 69, 80, 84, 73, 79, 78, 58, 32, 68, 111, 117, 98,
      108, 101, 32, 70, 97, 117, 108, 116, 33>>

\* "  This is a critical error."
CriticalError == 
    <<32, 32, 84, 104, 105, 115, 32, 105, 115, 32, 97, 32, 99, 114, 105, 116,
      105, 99, 97, 108, 32, 101, 114, 114, 111, 114, 46>>

\* "[DEBUG] Initializing IDT..."
InitializingIdt == 
    <<91, 68, 69, 66, 85, 71, 93, 32, 73, 110, 105, 116, 105, 97, 108, 105,
      122, 105, 110, 103, 32, 73, 68, 84, 46, 46, 46>>

\* "[DEBUG] IDT initialized successfully!"
IdtInitialized == 
    <<91, 68, 69, 66, 85, 71, 93, 32, 73, 68, 84, 32, 105, 110, 105, 116,
      105, 97, 108, 105, 122, 101, 100, 32, 115, 117, 99, 99, 101, 115, 115,
      102, 117, 108, 108, 121, 33>>

\* "[DEBUG] Triggering breakpoint exception..."
Triggering == 
    <<91, 68, 69, 66, 85, 71, 93, 32, 84, 114, 105, 103, 103, 101, 114, 105,
      110, 103, 32, 98, 114, 101, 97, 107, 112, 111, 105, 110, 116, 32, 101,
      120, 99, 101, 112, 116, 105, 111, 110, 46, 46, 46>>

\* "[DEBUG] Returned from breakpoint exception!"
Returned == 
    <<91, 68, 69, 66, 85, 71, 93, 32, 82, 101, 116, 117, 114, 110, 101, 100,
      32, 102, 114, 111, 109, 32, 98, 114, 101, 97, 107, 112, 111, 105, 110,
      116, 32, 101, 120, 99, 101, 112, 116, 105, 111, 110, 33>>

\* "OK"
Ok == <<79, 75>>

\* "Version 0.1.0 - Made with Rust"
Version ==
    <<86, 101, 114, 115, 105, 111, 110, 32, 48, 46, 49, 46,
      48, 32, 45, 32, 77, 97, 100, 101, 32, 119, 105, 116,
      104, 32, 82, 117, 115, 116>>

\* ------------------------------------------------------------ state

VARIABLES
    WRITER,     \* the global Writer: column_position, row_position, color_code, buffer
    call,       \* the operation performed last, with its arguments
    pre,        \* WRITER as it was when that operation started (<<>>: none has)
    stores,     \* the cells that operation stored at an explicit index, in order
    scrolls,    \* the number of scrolls that operation performed
    panicked,   \* an array index was out of range: the kernel has panicked
    nops,       \* operations performed so far
    SERIAL1_locked, \* the spin lock of the global SerialWriter is held
    serial_call,    \* the public serial operation in progress, or performed last
    serial_pc,      \* where that operation stands: idle, next, wait, out
    serial_i,       \* how many of its write_byte calls have returned
    port_io,        \* the port reads and writes of that operation, in order
    polls,          \* status reads of that operation that found the bit clear
    ncalls,         \* serial operations started so far
    uart,       \* the registers of the UART at COM1: ier, dll, dlm, lcr, fcr, mcr
    tx,         \* the bytes the UART transmitted, each with the call that wrote it
    IDT,        \* static mut IDT: None, or Some(the table stored in it)
    idtr,       \* the table the CPU has loaded: "none", or "IDT" (the static)
    idt_log,    \* what init did to the table, in order: new, set_handler_fn, store, load
    frames,     \* the contexts on the stack: the function called, then handlers
    cpu,        \* running, halted (in the hlt loop) or reset (triple fault)
    next_id,    \* the number the next serial call is known by
    kcalls,     \* public kernel operations called so far
    ntraps,     \* traps raised from outside so far
    serial_inits \* calls of serial::init that have returned

console_vars == <<WRITER, call, pre, stores, scrolls, panicked, nops>>

serial_vars == <<SERIAL1_locked, serial_call, serial_pc, serial_i, port_io, polls, ncalls>>

kernel_vars ==
    <<uart, tx, IDT, idtr, idt_log, frames, cpu, next_id, kcalls, ntraps, serial_inits>>

vars == <<console_vars, serial_vars, kernel_vars>>

Rows == 0..(VGA_HEIGHT - 1)

Cols == 0..(VGA_WIDTH - 1)

\* struct ScreenChar
ScreenChar(ascii_character, color_code) ==
    [ascii_character |-> ascii_character, color_code |-> color_code]

\* what the display memory holds before the kernel first writes it: the
\* text the firmware left there, grey on black, different in every row
InitialSurface ==
    [row \in Rows |-> [col \in Cols |-> ScreenChar(33 + ((7 * row + col) % 90), 7)]]

\* ------------------------------------------------------------ Writer

\* an execution of Writer methods: the Writer and what has been observed
Exec(w) ==
    [column_position |-> w.column_position, row_position |-> w.row_position,
     color_code |-> w.color_code, buffer |-> w.buffer,
     stores |-> <<>>, scrolls |-> 0, panicked |-> FALSE]

WriterOf(e) ==
    [column_position |-> e.column_position, row_position |-> e.row_position,
     color_code |-> e.color_code, buffer |-> e.buffer]

\* Writer::set_color
set_color(e, color) == [e EXCEPT !.color_code = color]

\* buffer.chars[row][col].write(c): indexing outside the array panics
chars_write(e, row, col, c) ==
    IF e.panicked THEN e
    ELSE IF row \in Rows /\ col \in Cols
         THEN [e EXCEPT !.buffer[row][col] = c]
         ELSE [e EXCEPT !.panicked = TRUE]

\* the same store, recorded in e.stores
chars_store(e, row, col, c) ==
    IF e.panicked THEN e
    ELSE chars_write([e EXCEPT !.stores = Append(@, [row |-> row, col |-> col, cell |-> c])],
                     row, col, c)

\* clear_row that blanks in the default attribute
clear_row_default(e, row) ==
    IF e.panicked THEN e
    ELSE IF row \in Rows
         THEN [e EXCEPT !.buffer[row] =
                  [col \in Cols |-> ScreenChar(BLANK, ColorCode_new(White, Black))]]
         ELSE [e EXCEPT !.panicked = TRUE]

\* Writer::clear_row
clear_row(e, row) ==
    IF e.panicked THEN e
    ELSE IF row \in Rows
         THEN [e EXCEPT !.buffer[row] =
                  [col \in Cols |-> ScreenChar(BLANK, e.color_code)]]
         ELSE [e EXCEPT !.panicked = TRUE]

\* the rows loop of Writer::scroll, from `row` on: row `row` is copied,
\* column by column, to row `row - 1`
RECURSIVE scroll_rows(_, _)
scroll_rows(e, row) ==
    IF e.panicked \/ row >= VGA_HEIGHT THEN e
    ELSE IF row \in Rows /\ (row - 1) \in Rows
         THEN scroll_rows([e EXCEPT !.buffer[row - 1] =
                               [col \in Cols |-> e.buffer[row][col]]], row + 1)
         ELSE [e EXCEPT !.panicked = TRUE]

\* Writer::scroll
scroll(e) ==
    LET e1 == scroll_rows(e, 1)
    IN  clear_row([e1 EXCEPT !.scrolls = @ + 1], VGA_HEIGHT - 1)

\* new_line that resets the column only when it moves down a row
new_line_keeps_column(e) ==
    IF e.row_position < VGA_HEIGHT - 1
    THEN [e EXCEPT !.row_position = @ + 1, !.column_position = 0]
    ELSE scroll(e)

\* Writer::new_line
new_line(e) ==
    LET e1 == IF e.row_position < VGA_HEIGHT - 1
              THEN [e EXCEPT !.row_position = @ + 1]
              ELSE scroll(e)
    IN  IF e1.panicked THEN e1 ELSE [e1 EXCEPT !.column_position = 0]

\* write_byte that wraps only when the column is past the width (> for >=)
write_byte_wraps_late(e, byte) ==
    IF e.panicked THEN e
    ELSE IF byte = LF THEN new_line(e)
    ELSE LET e1 == IF e.column_position > VGA_WIDTH THEN new_line(e) ELSE e
             row == e1.row_position
             col == e1.column_position
             e2 == chars_store(e1, row, col, ScreenChar(byte, e1.color_code))
         IN  IF e2.panicked THEN e2 ELSE [e2 EXCEPT !.column_position = @ + 1]

\* write_byte that wraps as soon as the row is full, after the store
write_byte_wraps_early(e, byte) ==
    IF e.panicked THEN e
    ELSE IF byte = LF THEN new_line(e)
    ELSE LET row == e.row_position
             col == e.column_position
             e2 == chars_store(e, row, col, ScreenChar(byte, e.color_code))
             e3 == IF e2.panicked THEN e2 ELSE [e2 EXCEPT !.column_position = @ + 1]
         IN  IF ~e3.panicked /\ e3.column_position >= VGA_WIDTH THEN new_line(e3) ELSE e3

\* Writer::write_byte
write_byte(e, byte) ==
    IF e.panicked THEN e
    ELSE IF byte = LF THEN new_line(e)
    ELSE LET e1 == IF e.column_position >= VGA_WIDTH THEN new_line(e) ELSE e
             row == e1.row_position
             col == e1.column_position
             e2 == chars_store(e1, row, col, ScreenChar(byte, e1.color_code))
         IN  IF e2.panicked THEN e2 ELSE [e2 EXCEPT !.column_position = @ + 1]

\* the match with the tab passed on like the line feed
write_string_byte_tab(byte) ==
    IF (byte >= 32 /\ byte <= 126) \/ byte = LF \/ byte = 9 THEN byte ELSE UNKNOWN_GLYPH

\* the match with 0x7f taken for printable (0x20..=0x7f)
write_string_byte_del(byte) ==
    IF (byte >= 32 /\ byte <= 127) \/ byte = LF THEN byte ELSE UNKNOWN_GLYPH

\* the match of Writer::write_string: 0x20..=0x7e | b'\n' pass, the rest
\* become 0xfe
write_string_byte(byte) ==
    IF (byte >= 32 /\ byte <= 126) \/ byte = LF THEN byte ELSE UNKNOWN_GLYPH

\* the loop of Writer::write_string from the i-th byte on
RECURSIVE write_string_from(_, _, _)
write_string_from(e, s, i) ==
    IF e.panicked \/ i > Len(s) THEN e
    ELSE write_string_from(write_byte(e, write_string_byte(s[i])), s, i + 1)

\* Writer::write_string
write_string(e, s) == write_string_from(e, s, 1)

\* the match of write_string copied: the line feed passes too
write_string_at_byte_keeps_lf(byte) ==
    IF (byte >= 32 /\ byte <= 126) \/ byte = LF THEN byte ELSE UNKNOWN_GLYPH

\* the match with the space left out (0x21..=0x7e)
write_string_at_byte_no_space(byte) ==
    IF byte > 32 /\ byte <= 126 THEN byte ELSE UNKNOWN_GLYPH

\* the match of Writer::write_string_at: 0x20..=0x7e pass, the rest become 0xfe
write_string_at_byte(byte) ==
    IF byte >= 32 /\ byte <= 126 THEN byte ELSE UNKNOWN_GLYPH

\* the loop of Writer::write_string_at from the i-th byte on
RECURSIVE write_string_at_from(_, _, _, _, _, _)
write_string_at_from(e, s, i, row, current_col, color) ==
    IF e.panicked \/ i > Len(s) THEN e
    ELSE IF current_col >= VGA_WIDTH THEN e
    ELSE write_string_at_from(
             chars_store(e, row, current_col,
                         ScreenChar(write_string_at_byte(s[i]), color)),
             s, i + 1, row, current_col + 1, color)

\* write_string_at that clamps an outside row to the last row
write_string_at_clamps_row(e, s, row, col, color) ==
    write_string_at_from(e, s, 1, Min(row, VGA_HEIGHT - 1), col, color)

\* write_string_at that makes the given attribute the current one
write_string_at_sets_color(e, s, row, col, color) ==
    IF row >= VGA_HEIGHT THEN e
    ELSE write_string_at_from(set_color(e, color), s, 1, row, col, color)

\* Writer::write_string_at
write_string_at(e, s, row, col, color) ==
    IF row >= VGA_HEIGHT THEN e
    ELSE write_string_at_from(e, s, 1, row, col, color)

\* the rows loop of Writer::clear_screen
RECURSIVE clear_rows(_, _)
clear_rows(e, row) ==
    IF e.panicked \/ row >= VGA_HEIGHT THEN e ELSE clear_rows(clear_row(e, row), row + 1)

\* Writer::clear_screen
clear_screen(e) ==
    LET e1 == clear_rows(e, 0)
    IN  IF e1.panicked THEN e1
        ELSE [e1 EXCEPT !.column_position = 0, !.row_position = 0]

\* ------------------------------------------------------------ console

\* lazy_static WRITER
Init ==
    /\ WRITER = [column_position |-> 0, row_position |-> 0,
                 color_code |-> ColorCode_new(White, Black),
                 buffer |-> InitialSurface]
    /\ call = [op |-> "new"]
    /\ pre = <<>>
    /\ stores = <<>>
    /\ scrolls = 0
    /\ panicked = FALSE
    /\ nops = 0
    /\ SERIAL1_locked = FALSE
    /\ serial_call = [op |-> "new"]
    /\ serial_pc = "idle"
    /\ serial_i = 0
    /\ port_io = <<>>
    /\ polls = 0
    /\ ncalls = 0
    /\ uart = [ier |-> 1, dll |-> 12, dlm |-> 1, lcr |-> 0, fcr |-> 0, mcr |-> 0]
    /\ tx = <<>>
    /\ IDT = [is_some |-> FALSE]
    /\ idtr = "none"
    /\ idt_log = <<>>
    /\ frames = <<>>
    /\ cpu = "running"
    /\ next_id = 1
    /\ kcalls = 0
    /\ ntraps = 0
    /\ serial_inits = 0

\* one public operation, run to its end under the WRITER lock
Perform(c, e) ==
    /\ ~panicked
    /\ nops < MaxOps
    /\ call' = c
    /\ pre' = WRITER
    /\ WRITER' = WriterOf(e)
    /\ stores' = e.stores
    /\ scrolls' = e.scrolls
    /\ panicked' = e.panicked
    /\ nops' = nops + 1
    /\ UNCHANGED <<serial_vars, kernel_vars>>

\* vga::clear_screen
ClearScreen ==
    Perform([op |-> "clear_screen"], clear_screen(Exec(WRITER)))

\* WRITER.lock().write_byte(byte)
WriteByte ==
    \E byte \in Bytes :
        Perform([op |-> "write_byte", byte |-> byte], write_byte(Exec(WRITER), byte))

\* WRITER.lock().write_string(s)
WriteString ==
    \E s \in Strings :
        Perform([op |-> "write_string", s |-> s], write_string(Exec(WRITER), s))

\* vga::write_string_at
WriteStringAt ==
    \E s \in AtStrings, row \in AtRows, col \in AtCols, color_byte \in AtColors :
        Perform([op |-> "write_string_at", s |-> s, row |-> row, col |-> col,
                 color |-> color_byte],
                write_string_at(Exec(WRITER), s, row, col, color_byte))

\* WRITER.lock().set_color(color)
SetColor ==
    \E color \in Colors :
        Perform([op |-> "set_color", color |-> color], set_color(Exec(WRITER), color))

Next == ClearScreen \/ WriteByte \/ WriteString \/ WriteStringAt \/ SetColor

Spec == Init /\ [][Next]_vars

\* every byte value, given as a one-byte text
ProbeBytes == 0..255

\* WRITER.lock().write_string(s) of one byte, as the first operation
ProbeWriteString ==
    \E byte \in ProbeBytes :
        /\ nops = 0
        /\ Perform([op |-> "write_string", s |-> <<byte>>],
                   write_string(Exec(WRITER), <<byte>>))

\* vga::write_string_at of one byte at the cursor's cell, as the first operation
ProbeWriteStringAt ==
    \E byte \in ProbeBytes, color_byte \in AtColors :
        /\ nops = 0
        /\ Perform([op |-> "write_string_at", s |-> <<byte>>, row |-> 0, col |-> 0,
                    color |-> color_byte],
                   write_string_at(Exec(WRITER), <<byte>>, 0, 0, color_byte))

ByteNext == ProbeWriteString \/ ProbeWriteStringAt

ByteSpec == Init /\ [][ByteNext]_vars

\* ------------------------------------------------------------ serial

\* inb(port) returning value, outb(port, value)
inb(port, value) == [op |-> "inb", port |-> port, value |-> value]

outb(port, value) == [op |-> "outb", port |-> port, value |-> value]

\* the bit test with the transmitter-idle bit (0x40) for 0x20
is_transmit_empty_bit6(status) == (status \div 64) % 2 = 1

\* SerialWriter::is_transmit_empty on the status read: (status & 0x20) != 0
is_transmit_empty(status) == (status \div 32) % 2 = 1

\* write_line that sends no line feed
write_byte_calls_no_newline(c) ==
    IF c.op = "write_byte" THEN <<c.byte>> ELSE c.s

\* the bytes an operation passes to SerialWriter::write_byte, call by call:
\* write_string loops over s.bytes(), write_line is write_string(s) and
\* then write_byte(b'\n')
write_byte_calls(c) ==
    IF c.op = "write_byte" THEN <<c.byte>>
    ELSE IF c.op = "write_string" THEN c.s
    ELSE c.s \o <<LF>>

SerialCalls ==
    [op : {"write_byte"}, byte : SerialBytes]
        \cup [op : {"write_string", "write_line"}, s : SerialStrings]

\* serial::write_byte / write_string / write_line: SERIAL1.lock()
SerialCall ==
    \E c \in SerialCalls :
        /\ serial_pc = "idle"
        /\ ~SERIAL1_locked
        /\ ncalls < MaxCalls
        /\ SERIAL1_locked' = TRUE
        /\ serial_call' = c
        /\ serial_pc' = "next"
        /\ serial_i' = 0
        /\ port_io' = <<>>
        /\ polls' = 0
        /\ ncalls' = ncalls + 1
        /\ UNCHANGED <<console_vars, kernel_vars>>

\* the next write_byte call of the operation, or its return: the guard is
\* dropped and the lock released
SerialNext ==
    /\ serial_pc = "next"
    /\ \/ /\ serial_i < Len(write_byte_calls(serial_call))
          /\ serial_pc' = "wait"
          /\ UNCHANGED SERIAL1_locked
       \/ /\ serial_i >= Len(write_byte_calls(serial_call))
          /\ serial_pc' = "idle"
          /\ SERIAL1_locked' = FALSE
    /\ UNCHANGED <<serial_call, serial_i, port_io, polls, ncalls>>
    /\ UNCHANGED <<console_vars, kernel_vars>>

\* a wait that gives up: after a busy status read the byte is written anyway
SerialPoll_gives_up ==
    \E status \in LineStatusValues :
        /\ serial_pc = "wait"
        /\ port_io' = Append(port_io, inb(COM1_PORT + LINE_STATUS_REG, status))
        /\ \/ /\ is_transmit_empty(status)
              /\ serial_pc' = "out"
              /\ UNCHANGED polls
           \/ /\ ~is_transmit_empty(status)
              /\ polls < MaxPolls
              /\ serial_pc' = IF polls >= 1 THEN "out" ELSE "wait"
              /\ polls' = polls + 1
        /\ UNCHANGED <<SERIAL1_locked, serial_call, serial_i, ncalls>>
        /\ UNCHANGED <<console_vars, kernel_vars>>

\* SerialWriter::write_byte: one test of while !self.is_transmit_empty()
SerialPoll ==
    \E status \in LineStatusValues :
        /\ serial_pc = "wait"
        /\ port_io' = Append(port_io, inb(COM1_PORT + LINE_STATUS_REG, status))
        /\ \/ /\ is_transmit_empty(status)
              /\ serial_pc' = "out"
              /\ UNCHANGED polls
           \/ /\ ~is_transmit_empty(status)
              /\ polls < MaxPolls
              /\ serial_pc' = "wait"
              /\ polls' = polls + 1
        /\ UNCHANGED <<SERIAL1_locked, serial_call, serial_i, ncalls>>
        /\ UNCHANGED <<console_vars, kernel_vars>>

\* SerialWriter::write_byte: outb(self.port + DATA_REG, byte), and return
SerialOut ==
    /\ serial_pc = "out"
    /\ port_io' = Append(port_io,
                         outb(COM1_PORT + DATA_REG,
                              write_byte_calls(serial_call)[serial_i + 1]))
    /\ serial_i' = serial_i + 1
    /\ serial_pc' = "next"
    /\ UNCHANGED <<SERIAL1_locked, serial_call, polls, ncalls>>
    /\ UNCHANGED <<console_vars, kernel_vars>>

SerialNextStep == SerialCall \/ SerialNext \/ SerialPoll \/ SerialOut

SerialSpec == Init /\ [][SerialNextStep]_vars

\* the status read that finds the transmit-empty bit set
SerialPollEmpty == SerialPoll /\ serial_pc' = "out"

\* a step that takes the running operation forward
SerialProgress == SerialNext \/ SerialPollEmpty \/ SerialOut

\* the operations that reach SerialWriter::write_byte, one of each:
\* write_byte(b'A'), write_line("") and write_string("OK")
WriteByteCalls ==
    { [op |-> "write_byte", byte |-> 65],
      [op |-> "write_line", s |-> <<>>],
      [op |-> "write_string", s |-> <<79, 75>>] }

\* serial::write_byte / write_string / write_line: SERIAL1.lock()
WriteByteCall ==
    \E c \in WriteByteCalls :
        /\ serial_pc = "idle"
        /\ ~SERIAL1_locked
        /\ ncalls < MaxCalls
        /\ SERIAL1_locked' = TRUE
        /\ serial_call' = c
        /\ serial_pc' = "next"
        /\ serial_i' = 0
        /\ port_io' = <<>>
        /\ polls' = 0
        /\ ncalls' = ncalls + 1
        /\ UNCHANGED <<console_vars, kernel_vars>>

WriteByteNext == WriteByteCall \/ SerialNext \/ SerialPoll \/ SerialOut

\* these operations, where the running operation keeps taking steps and
\* the UART eventually presents the transmit-empty bit to a waiting
\* write_byte
WriteByteSpec == Init /\ [][WriteByteNext]_vars /\ WF_vars(SerialProgress)

\* ------------------------------------------------------------ kernel

\* The UART at COM1 taking outb(port, value) from serial call id: offsets 0
\* and 1 reach the divisor latch while bit 0x80 of the line control register
\* (DLAB) is set, and the transmit register and the interrupt enable
\* register otherwise.  dev is [uart, tx].
uart_outb(dev, port, value, id) ==
    LET offset == port - COM1_PORT
        dlab == (dev.uart.lcr \div 128) % 2 = 1
    IN  IF offset = DATA_REG
        THEN IF dlab THEN [dev EXCEPT !.uart.dll = value]
             ELSE [dev EXCEPT !.tx = Append(@, [byte |-> value, id |-> id])]
        ELSE IF offset = INT_ENABLE_REG
        THEN IF dlab THEN [dev EXCEPT !.uart.dlm = value]
             ELSE [dev EXCEPT !.uart.ier = value]
        ELSE IF offset = FIFO_CTRL_REG THEN [dev EXCEPT !.uart.fcr = value]
        ELSE IF offset = LINE_CTRL_REG THEN [dev EXCEPT !.uart.lcr = value]
        ELSE IF offset = MODEM_CTRL_REG THEN [dev EXCEPT !.uart.mcr = value]
        ELSE dev

\* init that leaves the divisor latch open (no outb(LINE_CTRL_REG, 0x03))
SerialWriter_init_keeps_dlab(port) ==
    << outb(port + INT_ENABLE_REG, 0),
       outb(port + LINE_CTRL_REG, 128),
       outb(port + DATA_REG, 1),
       outb(port + INT_ENABLE_REG, 0),
       outb(port + FIFO_CTRL_REG, 199),
       outb(port + MODEM_CTRL_REG, 11) >>

\* SerialWriter::init: its port writes, in order
SerialWriter_init(port) ==
    << outb(port + INT_ENABLE_REG, 0),
       outb(port + LINE_CTRL_REG, 128),
       outb(port + DATA_REG, 1),
       outb(port + INT_ENABLE_REG, 0),
       outb(port + LINE_CTRL_REG, 3),
       outb(port + FIFO_CTRL_REG, 199),
       outb(port + MODEM_CTRL_REG, 11) >>

\* statements: the public serial operations, and the steps of interrupts.rs
serial_init == [op |-> "init"]

serial_write_string(s) == [op |-> "write_string", s |-> s]

serial_write_line(s) == [op |-> "write_line", s |-> s]

IsSerialOp(stmt) == stmt.op \in {"init", "write_byte", "write_string", "write_line"}

\* the port writes a public serial operation performs while it holds SERIAL1
port_writes(stmt) ==
    IF stmt.op = "init" THEN SerialWriter_init(COM1_PORT)
    ELSE [k \in 1..Len(write_byte_calls(stmt)) |->
              outb(COM1_PORT + DATA_REG, write_byte_calls(stmt)[k])]

\* interrupts::breakpoint_handler
breakpoint_handler ==
    << serial_write_line(<<>>),
       serial_write_line(RuleLine),
       serial_write_line(BreakpointTitle),
       serial_write_line(RuleLine),
       serial_write_line(<<>>),
       serial_write_string(InstructionPointer),
       serial_write_line(SeeQemu),
       serial_write_line(<<>>),
       serial_write_line(BreakpointHandled),
       serial_write_line(RuleLine),
       serial_write_line(<<>>) >>

\* interrupts::double_fault_handler
double_fault_handler ==
    << serial_write_line(<<>>),
       serial_write_line(BangLine),
       serial_write_line(DoubleFaultTitle),
       serial_write_line(CriticalError),
       serial_write_line(BangLine),
       serial_write_line(<<>>),
       [op |-> "hlt"] >>

\* the vectors of the table
Vectors == 0..255

\* InterruptDescriptorTable::new(): every entry missing
InterruptDescriptorTable_new == [vector \in Vectors |-> "missing"]

\* idt.breakpoint is the entry of vector 3, idt.double_fault of vector 8
breakpoint == 3

double_fault == 8

\* idt.<entry>.set_handler_fn(handler)
set_handler_fn(idt, vector, handler) == [idt EXCEPT ![vector] = handler]

\* init that loads the table it built on its stack, not the stored one
interrupts_init_loads_local ==
    << serial_write_line(InitializingIdt),
       [op |-> "new"],
       [op |-> "set_handler_fn", vector |-> breakpoint, handler |-> "breakpoint_handler"],
       [op |-> "set_handler_fn", vector |-> double_fault, handler |-> "double_fault_handler"],
       [op |-> "store"],
       [op |-> "load", of |-> "idt"],
       serial_write_line(IdtInitialized) >>

\* interrupts::init: the local idt is built, moved into the static IDT, and
\* the table found in IDT is loaded
interrupts_init ==
    << serial_write_line(InitializingIdt),
       [op |-> "new"],
       [op |-> "set_handler_fn", vector |-> breakpoint, handler |-> "breakpoint_handler"],
       [op |-> "set_handler_fn", vector |-> double_fault, handler |-> "double_fault_handler"],
       [op |-> "store"],
       [op |-> "load", of |-> "IDT"],
       serial_write_line(IdtInitialized) >>

\* test_breakpoint that raises no trap
test_breakpoint_no_int3 ==
    << serial_write_line(Triggering),
       serial_write_line(Returned) >>

\* interrupts::test_breakpoint
test_breakpoint ==
    << serial_write_line(Triggering),
       [op |-> "int3"],
       serial_write_line(Returned) >>

\* DEFAULT_COLOR of src/src/main.rs
DEFAULT_COLOR == 15

\* _start of src/src/main.rs, the kernel entry: its own clear_screen and
\* write_string(s, row, col, color), then loop { hlt }
start ==
    << [op |-> "main::clear_screen"],
       [op |-> "main::write_string", s |-> Hello, row |-> VGA_HEIGHT \div 2,
        col |-> (VGA_WIDTH - Len(Hello)) \div 2, color |-> 10],
       [op |-> "main::write_string", s |-> Version, row |-> (VGA_HEIGHT \div 2) + 2,
        col |-> (VGA_WIDTH - Len(Version)) \div 2, color |-> 7],
       [op |-> "hlt"] >>

\* the code of a function or handler
Body(fn) ==
    IF fn = "_start" THEN start
    ELSE IF fn = "serial::init" THEN <<serial_init>>
    ELSE IF fn = "serial::write_line" THEN <<serial_write_line(Ok)>>
    ELSE IF fn = "interrupts::init" THEN interrupts_init
    ELSE IF fn = "test_breakpoint" THEN test_breakpoint
    ELSE IF fn = "breakpoint_handler" THEN breakpoint_handler
    ELSE double_fault_handler

\* the public operations the boot context calls
KernelOps == {"serial::init", "interrupts::init", "test_breakpoint"}

\* the operations it calls where traps are raised from outside
TrapOps == {"interrupts::init", "serial::write_line"}

\* a context entering fn: at statement pc, before (call) or inside (locked)
\* the serial operation there, i of its port writes done under the name id;
\* tx0 is the length of the transmitted stream at entry; idt is the local
\* table of interrupts::init, not yet created
Frame(fn, tx0) ==
    [fn |-> fn, pc |-> 1, at |-> "call", i |-> 0, id |-> 0, tx0 |-> tx0,
     idt |-> [is_some |-> FALSE]]

Top == frames[Len(frames)]

Statement(f) == Body(f.fn)[f.pc]

Running == cpu = "running" /\ Len(frames) > 0

AtStatement == Running /\ Top.pc <= Len(Body(Top.fn))

SetTop(f) == [frames EXCEPT ![Len(frames)] = f]

NextStatement(f) == [f EXCEPT !.pc = @ + 1, !.at = "call", !.i = 0]

Pop == SubSeq(frames, 1, Len(frames) - 1)

\* the boot context calls one of the public operations ops
Call(ops) ==
    \E fn \in ops :
        /\ cpu = "running"
        /\ frames = <<>>
        /\ kcalls < MaxKernelCalls
        /\ frames' = <<Frame(fn, Len(tx))>>
        /\ kcalls' = kcalls + 1
        /\ UNCHANGED <<uart, tx, IDT, idtr, idt_log, cpu, next_id, ntraps, serial_inits>>
        /\ UNCHANGED <<console_vars, serial_vars>>

KernelCall == Call(KernelOps)

TrapCall == Call(TrapOps)

\* a lock() that does not wait for the holder
Mutex_lock_barges(locked) == TRUE

\* spin::Mutex::lock returns once it finds the lock free; until then it spins
Mutex_lock(locked) == ~locked

\* SERIAL1.lock() of the public serial operation the running context is at
KernelLock ==
    /\ AtStatement
    /\ IsSerialOp(Statement(Top))
    /\ Top.at = "call"
    /\ Mutex_lock(SERIAL1_locked)
    /\ SERIAL1_locked' = TRUE
    /\ frames' = SetTop([Top EXCEPT !.at = "locked", !.i = 0, !.id = next_id])
    /\ next_id' = next_id + 1
    /\ UNCHANGED <<uart, tx, IDT, idtr, idt_log, cpu, kcalls, ntraps, serial_inits>>
    /\ UNCHANGED <<serial_call, serial_pc, serial_i, port_io, polls, ncalls>>
    /\ UNCHANGED console_vars

\* the next outb of that operation; a byte to transmit is written when the
\* wait for the transmit-empty bit has ended
KernelPortWrite ==
    /\ AtStatement
    /\ IsSerialOp(Statement(Top))
    /\ Top.at = "locked"
    /\ Top.i < Len(port_writes(Statement(Top)))
    /\ LET w == port_writes(Statement(Top))[Top.i + 1]
           dev == uart_outb([uart |-> uart, tx |-> tx], w.port, w.value, Top.id)
       IN  /\ uart' = dev.uart
           /\ tx' = dev.tx
    /\ frames' = SetTop([Top EXCEPT !.i = @ + 1])
    /\ UNCHANGED <<IDT, idtr, idt_log, cpu, next_id, kcalls, ntraps, serial_inits>>
    /\ UNCHANGED <<console_vars, serial_vars>>

\* the operation returns: the guard is dropped and SERIAL1 released
KernelUnlock ==
    /\ AtStatement
    /\ IsSerialOp(Statement(Top))
    /\ Top.at = "locked"
    /\ Top.i = Len(port_writes(Statement(Top)))
    /\ SERIAL1_locked' = FALSE
    /\ frames' = SetTop(NextStatement(Top))
    /\ serial_inits' = IF Statement(Top).op = "init" THEN serial_inits + 1 ELSE serial_inits
    /\ UNCHANGED <<uart, tx, IDT, idtr, idt_log, cpu, next_id, kcalls, ntraps>>
    /\ UNCHANGED <<serial_call, serial_pc, serial_i, port_io, polls, ncalls>>
    /\ UNCHANGED console_vars

\* interrupts::init: let mut idt = InterruptDescriptorTable::new()
IdtNew ==
    /\ AtStatement
    /\ Statement(Top).op = "new"
    /\ frames' = SetTop([NextStatement(Top) EXCEPT
                            !.idt = [is_some |-> TRUE, value |-> InterruptDescriptorTable_new]])
    /\ idt_log' = Append(idt_log, "new")
    /\ UNCHANGED <<uart, tx, IDT, idtr, cpu, next_id, kcalls, ntraps, serial_inits>>
    /\ UNCHANGED <<console_vars, serial_vars>>

\* interrupts::init: idt.breakpoint / idt.double_fault .set_handler_fn(..)
IdtSetHandler ==
    /\ AtStatement
    /\ Statement(Top).op = "set_handler_fn"
    /\ frames' = SetTop([NextStatement(Top) EXCEPT
                            !.idt.value = set_handler_fn(@, Statement(Top).vector,
                                                         Statement(Top).handler)])
    /\ idt_log' = Append(idt_log, "set_handler_fn")
    /\ UNCHANGED <<uart, tx, IDT, idtr, cpu, next_id, kcalls, ntraps, serial_inits>>
    /\ UNCHANGED <<console_vars, serial_vars>>

\* interrupts::init: IDT = Some(idt)
IdtStore ==
    /\ AtStatement
    /\ Statement(Top).op = "store"
    /\ IDT' = [is_some |-> TRUE, value |-> Top.idt.value]
    /\ idt_log' = Append(idt_log, "store")
    /\ frames' = SetTop(NextStatement(Top))
    /\ UNCHANGED <<uart, tx, idtr, cpu, next_id, kcalls, ntraps, serial_inits>>
    /\ UNCHANGED <<console_vars, serial_vars>>

\* interrupts::init: match IDT { Some(ref idt) => idt.load(), None => {} }
IdtLoad ==
    /\ AtStatement
    /\ Statement(Top).op = "load"
    /\ LET found == IF Statement(Top).of = "IDT" THEN IDT.is_some ELSE Top.idt.is_some
       IN  /\ idtr' = IF found THEN Statement(Top).of ELSE idtr
           /\ idt_log' = IF found THEN Append(idt_log, "load") ELSE idt_log
    /\ frames' = SetTop(NextStatement(Top))
    /\ UNCHANGED <<uart, tx, IDT, cpu, next_id, kcalls, ntraps, serial_inits>>
    /\ UNCHANGED <<console_vars, serial_vars>>

\* int3: the CPU enters the handler of vector 3, which returns to the
\* statement after the int3; with no table loaded the fault cannot be
\* delivered and the machine resets
Int3 ==
    /\ AtStatement
    /\ Statement(Top).op = "int3"
    /\ \/ /\ idtr = "IDT"
          /\ frames' = Append(SetTop(NextStatement(Top)), Frame(IDT.value[breakpoint], Len(tx)))
          /\ UNCHANGED cpu
       \/ /\ idtr = "none"
          /\ cpu' = "reset"
          /\ UNCHANGED frames
    /\ UNCHANGED <<uart, tx, IDT, idtr, idt_log, next_id, kcalls, ntraps, serial_inits>>
    /\ UNCHANGED <<console_vars, serial_vars>>

\* the end of a function or handler: ret, or iretq into the context below
Return ==
    /\ Running
    /\ Top.pc > Len(Body(Top.fn))
    /\ frames' = Pop
    /\ UNCHANGED <<uart, tx, IDT, idtr, idt_log, cpu, next_id, kcalls, ntraps, serial_inits>>
    /\ UNCHANGED <<console_vars, serial_vars>>

\* loop { hlt() }: the processor halts, and stays halted
Hlt ==
    /\ AtStatement
    /\ Statement(Top).op = "hlt"
    /\ cpu' = "halted"
    /\ UNCHANGED <<uart, tx, IDT, idtr, idt_log, frames, next_id, kcalls, ntraps, serial_inits>>
    /\ UNCHANGED <<console_vars, serial_vars>>

\* vector 3 or vector 8 is raised between two steps of the running context,
\* once the table is loaded: the CPU enters the handler on top of it.  The
\* code between two calls of the boot context is not part of the model, so
\* the context interrupted is a called operation or a handler.  The
\* handlers execute no int3, so vector 3 is raised in other code only; a
\* fault inside the double-fault handler is not delivered.
Trap ==
    \E vector \in {breakpoint, double_fault} :
        /\ cpu = "running"
        /\ idtr = "IDT"
        /\ ntraps < MaxTraps
        /\ Len(frames) > 0
        /\ \A k \in 1..Len(frames) : frames[k].fn # "double_fault_handler"
        /\ vector = breakpoint => \A k \in 1..Len(frames) : frames[k].fn # "breakpoint_handler"
        /\ frames' = Append(frames,
                            Frame(IDT.value[vector], Len(tx)))
        /\ ntraps' = ntraps + 1
        /\ UNCHANGED <<uart, tx, IDT, idtr, idt_log, cpu, next_id, kcalls, serial_inits>>
        /\ UNCHANGED <<console_vars, serial_vars>>

\* the byte pair at offset of the display memory at 0xb8000 set to
\* (byte, color): the memory is the cell array WRITER.buffer refers to
vga_buffer_write(w, offset, byte, color) ==
    [w EXCEPT !.buffer[(offset \div 2) \div VGA_WIDTH][(offset \div 2) % VGA_WIDTH] =
                  ScreenChar(byte, color)]

\* the boot loader jumps to _start
Start ==
    /\ cpu = "running"
    /\ frames = <<>>
    /\ kcalls = 0
    /\ frames' = <<Frame("_start", Len(tx))>>
    /\ kcalls' = kcalls + 1
    /\ UNCHANGED <<uart, tx, IDT, idtr, idt_log, cpu, next_id, ntraps, serial_inits>>
    /\ UNCHANGED <<console_vars, serial_vars>>

\* clear_screen of main.rs: one turn of for i in 0..(VGA_WIDTH * VGA_HEIGHT)
StartClearScreen ==
    /\ AtStatement
    /\ Statement(Top).op = "main::clear_screen"
    /\ Top.i < VGA_WIDTH * VGA_HEIGHT
    /\ WRITER' = vga_buffer_write(WRITER, Top.i * 2, BLANK, DEFAULT_COLOR)
    /\ frames' = SetTop([Top EXCEPT !.i = @ + 1])
    /\ UNCHANGED <<call, pre, stores, scrolls, panicked, nops>>
    /\ UNCHANGED <<serial_vars, uart, tx, IDT, idtr, idt_log, cpu, next_id, kcalls,
                   ntraps, serial_inits>>

\* write_string of main.rs: one turn of for byte in s.bytes() that does not
\* break
StartWriteString ==
    /\ AtStatement
    /\ Statement(Top).op = "main::write_string"
    /\ Top.i < Len(Statement(Top).s)
    /\ LET c == Statement(Top)
           offset == (c.row * VGA_WIDTH + c.col) * 2 + Top.i * 2
       IN  /\ offset < VGA_WIDTH * VGA_HEIGHT * 2
           /\ WRITER' = vga_buffer_write(WRITER, offset, c.s[Top.i + 1], c.color)
    /\ frames' = SetTop([Top EXCEPT !.i = @ + 1])
    /\ UNCHANGED <<call, pre, stores, scrolls, panicked, nops>>
    /\ UNCHANGED <<serial_vars, uart, tx, IDT, idtr, idt_log, cpu, next_id, kcalls,
                   ntraps, serial_inits>>

\* the loop of clear_screen or write_string of main.rs ends (or breaks):
\* the function returns into _start
StartLoopEnd ==
    /\ AtStatement
    /\ LET c == Statement(Top)
       IN  \/ c.op = "main::clear_screen" /\ Top.i = VGA_WIDTH * VGA_HEIGHT
           \/ /\ c.op = "main::write_string"
              /\ \/ Top.i = Len(c.s)
                 \/ (c.row * VGA_WIDTH + c.col) * 2 + Top.i * 2 >= VGA_WIDTH * VGA_HEIGHT * 2
    /\ frames' = SetTop(NextStatement(Top))
    /\ UNCHANGED <<uart, tx, IDT, idtr, idt_log, cpu, next_id, kcalls, ntraps, serial_inits>>
    /\ UNCHANGED <<console_vars, serial_vars>>

StartNext == Start \/ StartClearScreen \/ StartWriteString \/ StartLoopEnd \/ Hlt

\* the kernel from its entry point
StartSpec == Init /\ [][StartNext]_vars

\* a step of the running context
KernelStep ==
    \/ KernelLock \/ KernelPortWrite \/ KernelUnlock
    \/ IdtNew \/ IdtSetHandler \/ IdtStore \/ IdtLoad
    \/ Int3 \/ Return

KernelNext == KernelCall \/ KernelStep

\* the boot context calling public operations, one after the other
KernelSpec == Init /\ [][KernelNext]_vars

\* the same, where the running context keeps taking steps while it can (the
\* UART reports transmit-empty after each byte)
FairKernelSpec == KernelSpec /\ WF_vars(KernelStep)

TrapNext ==
    \/ TrapCall
    \/ KernelLock \/ KernelPortWrite \/ KernelUnlock
    \/ IdtNew \/ IdtSetHandler \/ IdtStore \/ IdtLoad \/ Return
    \/ Hlt
    \/ Trap

\* the boot context calling interrupts::init and serial::write_line, with
\* vector 3 and vector 8 raised at any step
TrapSpec == Init /\ [][TrapNext]_vars

\* ------------------------------------------------------------ claims

IsPrintable(byte) == byte >= 32 /\ byte <= 126

\* the blank cell in the default attribute: ' ', white on black
DefaultBlank == ScreenChar(BLANK, ColorCode_new(White, Black))

\* C1: after clear_screen every cell is the blank character in the default
\* attribute (white on black, 0x0F), whatever the current attribute is.
C1_ClearScreenDefaultBlank ==
    call.op = "clear_screen" =>
        \A row \in Rows, col \in Cols : WRITER.buffer[row][col] = DefaultBlank

\* C2: write_string_at of printable text that fits in the row is read back
\* unchanged: cell (row, col + i) holds s[i] and the given attribute.
C2_WriteStringAtReadBack ==
    ( /\ call.op = "write_string_at"
      /\ call.row < VGA_HEIGHT
      /\ call.col < VGA_WIDTH
      /\ call.col + Len(call.s) <= VGA_WIDTH
      /\ \A i \in 1..Len(call.s) : IsPrintable(call.s[i]) )
    => /\ ~panicked
       /\ \A i \in 1..Len(call.s) :
             WRITER.buffer[call.row][call.col + i - 1] = ScreenChar(call.s[i], call.color)

\* C2 witness: "Hello, GwenOS!" written so that it ends in the last cell of
\* the last row, and is there.
C2_Witness ==
    /\ call.op = "write_string_at"
    /\ call.s = Hello
    /\ call.row = VGA_HEIGHT - 1
    /\ call.col = VGA_WIDTH - Len(Hello)
    /\ WRITER.buffer[VGA_HEIGHT - 1][VGA_WIDTH - 1] = ScreenChar(33, call.color)
    /\ pre.buffer[VGA_HEIGHT - 1][VGA_WIDTH - 1] # ScreenChar(33, call.color)

\* C3: write_string_at changes no cell outside (row, col .. min(col + len, 80) - 1):
\* text past column 79 is dropped, a row >= 25 changes nothing; so on a
\* surface just cleared "Hello, GwenOS!" at (12, 33) leaves every other cell
\* blank.
C3_WriteStringAtFrame ==
    call.op = "write_string_at" =>
        /\ ~panicked
        /\ \A row \in Rows, col \in Cols :
              ( \/ row # call.row
                \/ col < call.col
                \/ col >= Min(call.col + Len(call.s), VGA_WIDTH) )
              => WRITER.buffer[row][col] = pre.buffer[row][col]
        /\ ( /\ call.s = Hello /\ call.row = 12 /\ call.col = 33
             /\ \A row \in Rows, col \in Cols : pre.buffer[row][col] = DefaultBlank )
           => \A row \in Rows, col \in Cols :
                 (row # 12 \/ col < 33 \/ col >= 33 + 14)
                 => WRITER.buffer[row][col] = DefaultBlank

\* C3 witness: a text cut at the right edge: its first two bytes are in
\* columns 78 and 79 and the rest went nowhere.
C3_Witness ==
    /\ call.op = "write_string_at"
    /\ call.s = Hello
    /\ call.row = VGA_HEIGHT - 1
    /\ call.col = VGA_WIDTH - 2
    /\ Len(stores) = 2
    /\ WRITER.buffer[call.row][VGA_WIDTH - 1] = ScreenChar(101, call.color)
    /\ WRITER.buffer # pre.buffer

\* what a cursor-relative write would do from Writer w
WouldWrite(w, s) ==
    LET e == write_string(Exec(w), s)
    IN  <<e.stores, e.column_position, e.row_position, e.scrolls, e.panicked>>

\* the strings tried as the write_string that follows
FollowUps == {s \in Strings : Len(s) <= 4}

\* C4: write_string_at leaves the cursor and the current attribute as they
\* were, so a write_string after it stores the same cells with the same
\* attribute as it would have without it.
C4_WriteStringAtKeepsCursor ==
    call.op = "write_string_at" =>
        /\ WRITER.row_position = pre.row_position
        /\ WRITER.column_position = pre.column_position
        /\ WRITER.color_code = pre.color_code
        /\ \A s \in FollowUps : WouldWrite(WRITER, s) = WouldWrite(pre, s)

\* C4 witness: a write_string_at that changed the surface while the cursor
\* was away from the origin and the attribute was not the one it was given.
C4_Witness ==
    /\ call.op = "write_string_at"
    /\ WRITER.buffer # pre.buffer
    /\ pre.column_position = VGA_WIDTH
    /\ pre.row_position = VGA_HEIGHT - 1
    /\ pre.color_code # call.color

\* the bytes of s that are not line feeds, in order
NotLF(byte) == byte # LF

Visible(s) == SelectSeq(s, NotLF)

\* where the cursor stands after one more byte, by the console's geometry:
\* <<row, col>>
CursorAfter(cur, byte) ==
    LET down == Min(cur[1] + 1, VGA_HEIGHT - 1)
    IN  IF byte = LF THEN <<down, 0>>
        ELSE IF cur[2] >= VGA_WIDTH THEN <<down, 1>>
        ELSE <<cur[1], cur[2] + 1>>

\* the cursor after each byte of s from cursor cur: cursors[i] after s[1..i]
RECURSIVE CursorsFrom(_, _, _, _)
CursorsFrom(cur, s, i, acc) ==
    IF i > Len(s) \/ Len(acc) > Len(s) \/ cur[1] < 0 THEN acc
    ELSE LET next == CursorAfter(cur, s[i])
         IN  CursorsFrom(next, s, i + 1, IF s[i] = LF THEN acc ELSE Append(acc, next))

\* the cell each visible byte of s lands in: one column left of the cursor
\* after it
Landings(w, s) == CursorsFrom(<<w.row_position, w.column_position>>, s, 1, <<>>)

\* C5: write_string stores every byte that is neither printable nor a line
\* feed as 0xFE, and every printable byte unchanged, each at the cursor
\* position of that byte: a substitution does not shift, drop or alter the
\* bytes around it.
C5_WriteStringSubstitutes ==
    call.op = "write_string" =>
        LET vis  == Visible(call.s)
            land == Landings(pre, call.s)
        IN  /\ Len(stores) = Len(vis)
            /\ \A k \in 1..Len(vis) :
                  /\ stores[k].cell.ascii_character =
                        (IF IsPrintable(vis[k]) THEN vis[k] ELSE UNKNOWN_GLYPH)
                  /\ stores[k].cell.color_code = pre.color_code
                  /\ stores[k].row = land[k][1]
                  /\ stores[k].col = land[k][2] - 1
                  /\ scrolls = 0 =>
                        WRITER.buffer[stores[k].row][stores[k].col] = stores[k].cell

\* C5 witness: "A", BEL, "B" written: 'A', 0xFE, 'B' are in three adjacent cells.
C5_Witness ==
    /\ call.op = "write_string"
    /\ call.s = <<65, 7, 66>>
    /\ pre.column_position = 1
    /\ WRITER.buffer[pre.row_position][1].ascii_character = 65
    /\ WRITER.buffer[pre.row_position][2].ascii_character = UNKNOWN_GLYPH
    /\ WRITER.buffer[pre.row_position][3].ascii_character = 66

\* C6: no operation panics: the cursor stays within row <= 24 and
\* column <= 80, every cell access has row < 25 and column < 80, and
\* write_string consumes all of its input.
C6_NoPanicCursorInRange ==
    /\ ~panicked
    /\ WRITER.row_position \in 0..(VGA_HEIGHT - 1)
    /\ WRITER.column_position \in 0..VGA_WIDTH
    /\ \A k \in 1..Len(stores) : stores[k].row \in Rows /\ stores[k].col \in Cols
    /\ call.op = "write_string" =>
          Len(stores) = Len(Visible(call.s))

\* C6 witness: a write_string that started with the cursor past the last
\* column of the last row and scrolled.
C6_Witness ==
    /\ call.op = "write_string"
    /\ pre.row_position = VGA_HEIGHT - 1
    /\ pre.column_position = VGA_WIDTH
    /\ Len(call.s) > 0
    /\ scrolls >= 1
    /\ ~panicked

IsLineFeedCall ==
    \/ call.op = "write_byte" /\ call.byte = LF
    \/ call.op = "write_string" /\ call.s = <<LF>>

\* C7: a line feed stores no cell at the cursor, sets the column to 0, and
\* moves the cursor down one row when row < 24; on row 24 the row stays 24
\* and exactly one scroll happens.
C7_LineFeed ==
    IsLineFeedCall =>
        /\ stores = <<>>
        /\ WRITER.column_position = 0
        /\ pre.row_position < VGA_HEIGHT - 1 =>
              /\ WRITER.row_position = pre.row_position + 1
              /\ scrolls = 0
              /\ WRITER.buffer = pre.buffer
        /\ pre.row_position = VGA_HEIGHT - 1 =>
              /\ WRITER.row_position = VGA_HEIGHT - 1
              /\ scrolls = 1

\* C7 witness: a line feed on the last row, with the cursor in mid-row.
C7_Witness ==
    /\ IsLineFeedCall
    /\ pre.row_position = VGA_HEIGHT - 1
    /\ pre.column_position = VGA_WIDTH
    /\ scrolls = 1
    /\ WRITER.column_position = 0

IsOnePrintableByteCall ==
    \/ call.op = "write_byte" /\ IsPrintable(call.byte)
    \/ call.op = "write_string" /\ Len(call.s) = 1 /\ IsPrintable(call.s[1])

TheByte == IF call.op = "write_byte" THEN call.byte ELSE call.s[1]

\* C8: 80 printable bytes written from column 0 fill the row without a
\* scroll and without moving the cursor row; on row 24 one more printable
\* byte scrolls exactly once: row 0's content is replaced by row 1's, the
\* cursor row is still 24 and the column is 1.
C8_DeferredWrap ==
    /\ ( /\ call.op = "write_string"
         /\ Len(call.s) = VGA_WIDTH
         /\ \A i \in 1..Len(call.s) : IsPrintable(call.s[i])
         /\ pre.column_position = 0 )
       => /\ scrolls = 0
          /\ WRITER.row_position = pre.row_position
          /\ WRITER.column_position = VGA_WIDTH
          /\ \A col \in Cols :
                WRITER.buffer[pre.row_position][col] =
                    ScreenChar(call.s[col + 1], pre.color_code)
          /\ \A row \in Rows \ {pre.row_position} : WRITER.buffer[row] = pre.buffer[row]
    /\ ( /\ IsOnePrintableByteCall
         /\ pre.row_position = VGA_HEIGHT - 1
         /\ pre.column_position = VGA_WIDTH )
       => /\ scrolls = 1
          /\ WRITER.row_position = VGA_HEIGHT - 1
          /\ WRITER.column_position = 1
          /\ \A row \in 0..(VGA_HEIGHT - 2) : WRITER.buffer[row] = pre.buffer[row + 1]
          /\ WRITER.buffer[VGA_HEIGHT - 1][0] = ScreenChar(TheByte, pre.color_code)

\* C8 witness: the 81st byte on the last row: the row above now holds the
\* 80 bytes, and what row 0 held is no longer in row 0.
C8_Witness ==
    /\ IsOnePrintableByteCall
    /\ pre.row_position = VGA_HEIGHT - 1
    /\ pre.column_position = VGA_WIDTH
    /\ scrolls = 1
    /\ WRITER.buffer[VGA_HEIGHT - 2] = pre.buffer[VGA_HEIGHT - 1]
    /\ WRITER.buffer[0] # pre.buffer[0]
    /\ WRITER.column_position = 1

IsDataOut(ev) == ev.op = "outb" /\ ev.port = COM1_PORT + DATA_REG

\* the values written to the data register, in order
RECURSIVE MapValues(_, _)
MapValues(evs, i) ==
    IF i > Len(evs) THEN <<>> ELSE <<evs[i].value>> \o MapValues(evs, i + 1)

Transmitted == MapValues(SelectSeq(port_io, IsDataOut), 1)

\* C9: every write of the data register (base + 0) comes right after a read
\* of the line-status register (base + 5) that returned a value with bit
\* 0x20 set, whatever status values the UART returns.
C9_DataWriteAfterEmptyStatus ==
    \A k \in 1..Len(port_io) :
        IsDataOut(port_io[k]) =>
            /\ k > 1
            /\ port_io[k - 1].op = "inb"
            /\ port_io[k - 1].port = COM1_PORT + LINE_STATUS_REG
            /\ (port_io[k - 1].value \div 32) % 2 = 1

\* C9 witness: the status was read busy first (0x40: idle bit only), then
\* empty, and only then the byte went out.
C9_Witness ==
    /\ Len(port_io) = 3
    /\ port_io[1] = inb(COM1_PORT + LINE_STATUS_REG, 64)
    /\ port_io[2].op = "inb" /\ (port_io[2].value \div 32) % 2 = 1
    /\ IsDataOut(port_io[3])

SerialReturned == serial_pc = "idle" /\ serial_call.op # "new"

\* C10: write_string(s) writes exactly the bytes of s, in order, to the data
\* register, and write_line(s) the bytes of s followed by one 0x0A.
C10_SerialBytesInOrder ==
    /\ (SerialReturned /\ serial_call.op = "write_string") =>
          Transmitted = serial_call.s
    /\ (SerialReturned /\ serial_call.op = "write_line") =>
          Transmitted = serial_call.s \o <<LF>>
    /\ (~SerialReturned /\ serial_call.op = "write_string") =>
          Transmitted = SubSeq(serial_call.s, 1, Len(Transmitted))
    /\ (~SerialReturned /\ serial_call.op = "write_line") =>
          Transmitted = SubSeq(serial_call.s \o <<LF>>, 1, Len(Transmitted))

\* C10 witness: write_line("") has returned and one 0x0A was transmitted.
C10_Witness ==
    /\ SerialReturned
    /\ serial_call.op = "write_line"
    /\ serial_call.s = <<>>
    /\ Transmitted = <<LF>>
    /\ ~SERIAL1_locked

\* the surface scrolled up by one row, the new last row blank in attribute color
ScrolledUp(surface, color) ==
    [row \in Rows |->
        IF row < VGA_HEIGHT - 1 THEN surface[row + 1]
        ELSE [col \in Cols |-> ScreenChar(BLANK, color)]]

\* C18: a scroll moves every row up by one: S'[r][c] = S[r+1][c] for r in
\* 0..23, what row 0 held is in no row of S' (when no other row held the
\* same), and row 24 of S' is blank in the attribute current at the scroll.
C18_ScrollUpOneRow ==
    ( /\ call.op \in {"write_byte", "write_string"}
      /\ scrolls = 1
      /\ stores = <<>> )
    => /\ \A row \in 0..(VGA_HEIGHT - 2), col \in Cols :
             WRITER.buffer[row][col] = pre.buffer[row + 1][col]
       /\ \A col \in Cols :
             WRITER.buffer[VGA_HEIGHT - 1][col] = ScreenChar(BLANK, pre.color_code)
       /\ ( /\ \A row \in 1..(VGA_HEIGHT - 1) : pre.buffer[row] # pre.buffer[0]
            /\ pre.buffer[0] # ScrolledUp(pre.buffer, pre.color_code)[VGA_HEIGHT - 1] )
          => \A row \in Rows : WRITER.buffer[row] # pre.buffer[0]

\* C18 witness: a scroll while the current attribute is neither the default
\* nor the attribute of the row that was last.
C18_Witness ==
    /\ call.op = "write_string"
    /\ scrolls = 1
    /\ stores = <<>>
    /\ pre.color_code = 10
    /\ pre.buffer[VGA_HEIGHT - 1][0].color_code = 7
    /\ WRITER.buffer[VGA_HEIGHT - 1][0] = ScreenChar(BLANK, 10)
    /\ WRITER.buffer[0] = pre.buffer[1]
    /\ WRITER.buffer[0] # pre.buffer[0]

\* the character a one-byte operation stored, -1 when it stored no cell
Glyph(log) == IF Len(log) = 0 THEN -1 ELSE log[1].cell.ascii_character

IsProbe == nops = 1 /\ call.op \in {"write_string", "write_string_at"} /\ Len(call.s) = 1

\* what write_string_at stores for the probed byte: in the operation
\* performed, or else applied to the same Writer
AtGlyph ==
    IF call.op = "write_string_at" THEN Glyph(stores)
    ELSE Glyph(write_string_at(Exec(pre), call.s, 0, 0, 10).stores)

\* what write_string stores for the probed byte
WsGlyph ==
    IF call.op = "write_string" THEN Glyph(stores)
    ELSE Glyph(write_string(Exec(pre), call.s).stores)

\* C19 as stated: for every byte 0..255, write_string_at replaces it by 0xFE
\* exactly when write_string does, and otherwise stores what write_string
\* stores, the line feed included.
C19_SameSubstitution ==
    IsProbe =>
        /\ (AtGlyph = UNKNOWN_GLYPH) <=> (WsGlyph = UNKNOWN_GLYPH)
        /\ AtGlyph = WsGlyph

\* C19 amended: for every byte other than the line feed write_string_at
\* stores what write_string stores (0xFE exactly when write_string stores
\* 0xFE); the line feed 0x0A is stored as 0xFE by write_string_at, while
\* write_string stores no cell for it and starts a new line.
C19_SameSubstitutionButLineFeed ==
    IsProbe =>
        /\ call.s[1] # LF =>
              /\ AtGlyph = WsGlyph
              /\ AtGlyph = (IF IsPrintable(call.s[1]) THEN call.s[1] ELSE UNKNOWN_GLYPH)
        /\ call.s[1] = LF =>
              /\ AtGlyph = UNKNOWN_GLYPH
              /\ WsGlyph = -1
              /\ call.op = "write_string" =>
                    WRITER.row_position = 1 /\ WRITER.column_position = 0

\* C19 witness: write_string_at was given the line feed and stored 0xFE.
C19_Witness ==
    /\ IsProbe
    /\ call.op = "write_string_at"
    /\ call.s = <<LF>>
    /\ WRITER.buffer[0][0] = ScreenChar(UNKNOWN_GLYPH, call.color)

ValidCell(c) == IsPrintable(c.ascii_character) \/ c.ascii_character = UNKNOWN_GLYPH

ValidSurface(surface) == \A row \in Rows, col \in Cols : ValidCell(surface[row][col])

\* the attribute the operation was given for the cells it stores
SuppliedColor == IF call.op = "write_string_at" THEN call.color ELSE pre.color_code

\* C20: clear_screen, write_string_at and write_string (with its scrolls)
\* keep every cell's character printable or 0xFE: a cleared surface holds
\* valid cells only, every cell an operation stores is valid and carries,
\* written with it as one pair, the attribute the operation was given, and
\* every cell of the surface afterwards is such a stored cell, a blank in
\* the current attribute, or the cell the surface held there before (as
\* many rows below as the operation scrolled).  So from a surface of valid
\* cells these operations reach surfaces of valid cells only.
C20_DisplayCellInvariant ==
    call.op \in {"clear_screen", "write_string_at", "write_string"}
    => /\ call.op = "clear_screen" => ValidSurface(WRITER.buffer)
       /\ \A k \in 1..Len(stores) :
             /\ ValidCell(stores[k].cell)
             /\ stores[k].cell.color_code = SuppliedColor
       /\ LET new == {stores[k].cell : k \in 1..Len(stores)}
                         \cup {ScreenChar(BLANK, pre.color_code)}
          IN  \A row \in Rows, col \in Cols :
                 \/ /\ call.op # "clear_screen"
                    /\ row + scrolls < VGA_HEIGHT
                    /\ WRITER.buffer[row][col] = pre.buffer[row + scrolls][col]
                 \/ WRITER.buffer[row][col] \in new

\* C20 witness: text with a control byte written on a cleared surface: the
\* surface holds 'A', 0xFE, 'B' and blanks.
C20_Witness ==
    /\ call.op = "write_string"
    /\ call.s = <<65, 7, 66>>
    /\ \A row \in Rows, col \in Cols : pre.buffer[row][col] = DefaultBlank
    /\ WRITER.buffer[0][0] = ScreenChar(65, 15)
    /\ WRITER.buffer[0][1] = ScreenChar(UNKNOWN_GLYPH, 15)
    /\ WRITER.buffer[0][2] = ScreenChar(66, 15)
    /\ WRITER.buffer[0][3] = DefaultBlank

\* the bytes transmitted after the first from
TxBytes(from) == [k \in 1..(Len(tx) - from) |-> tx[from + k].byte]

\* a context is inside a serial operation: it holds (or believes it holds) SERIAL1
InCall(f) == f.pc <= Len(Body(f.fn)) /\ IsSerialOp(Statement(f)) /\ f.at = "locked"

\* a context has called a serial operation that has not taken SERIAL1 yet
AtLock(f) == f.pc <= Len(Body(f.fn)) /\ IsSerialOp(Statement(f)) /\ f.at = "call"

\* C11: the bytes of overlapping serial calls never interleave: the bytes of
\* each call are one contiguous block of the transmitted stream, and from a
\* call's first port write to its return SERIAL1 is held by that call alone.
\* The stream only grows at its end, so the blocks are contiguous when in
\* every state the last byte continues the block before it or is the first
\* byte of its call.
C11_SerialCallsDoNotInterleave ==
    /\ Len(tx) > 1 =>
          \/ tx[Len(tx)].id = tx[Len(tx) - 1].id
          \/ \A i \in 1..(Len(tx) - 1) : tx[i].id # tx[Len(tx)].id
    /\ \A k \in 1..Len(frames) :
          InCall(frames[k]) =>
             /\ SERIAL1_locked
             /\ \A m \in 1..Len(frames) : m # k => ~InCall(frames[m])
             /\ (Statement(frames[k]).op # "init" /\ frames[k].i > 0)
                   => tx[Len(tx)].id = frames[k].id

\* C11 witness: a handler entered between two bytes of a write_line has
\* called a serial operation, which has not transmitted a byte.
C11_Witness ==
    /\ Len(frames) = 2
    /\ InCall(frames[1])
    /\ Statement(frames[1]).op = "write_line"
    /\ frames[1].i > 0
    /\ frames[1].i < Len(port_writes(Statement(frames[1])))
    /\ frames[2].fn = "breakpoint_handler"
    /\ AtLock(frames[2])
    /\ tx[Len(tx)].id = frames[1].id

\* C12: once the table is loaded the breakpoint handler, entered at any
\* step of the interrupted context, finishes and returns.  It cannot when it
\* waits for SERIAL1 while a context below it on the stack holds the lock:
\* that context resumes only after the handler has returned.  The claim
\* says no such state is reached.
C12_BreakpointHandlerNeverBlocked ==
    ~ ( /\ Running
        /\ Top.fn = "breakpoint_handler"
        /\ AtLock(Top)
        /\ SERIAL1_locked
        /\ \E k \in 1..(Len(frames) - 1) : InCall(frames[k]) )

\* the report of breakpoint_handler, as transmitted
BreakpointReport ==
    <<LF>> \o RuleLine \o <<LF>> \o BreakpointTitle \o <<LF>> \o RuleLine \o <<LF>>
        \o <<LF>> \o InstructionPointer \o SeeQemu \o <<LF>> \o <<LF>>
        \o BreakpointHandled \o <<LF>> \o RuleLine \o <<LF>> \o <<LF>>

\* test_breakpoint called with the table loaded
InTestBreakpoint ==
    Len(frames) > 0 /\ frames[1].fn = "test_breakpoint" /\ idtr = "IDT"

\* it has come to its end
TestBreakpointDone == InTestBreakpoint /\ Len(frames) = 1 /\ frames[1].pc > Len(test_breakpoint)

\* C13: after interrupts::init one call of test_breakpoint transmits the
\* "Triggering" line, the breakpoint report exactly once, and the "Returned"
\* line, in this order and nothing else; and the call always comes to its
\* end, so the "Returned" line is always eventually transmitted.
C13_TestBreakpointReportsOnce ==
    /\ [](TestBreakpointDone =>
            TxBytes(frames[1].tx0) =
                Triggering \o <<LF>> \o BreakpointReport \o Returned \o <<LF>>)
    /\ (InTestBreakpoint ~> TestBreakpointDone)

\* C13 witness: test_breakpoint at its end, the last line transmitted being
\* "Returned", with the report before it.
C13_Witness ==
    /\ TestBreakpointDone
    /\ Len(tx) - frames[1].tx0 =
          Len(Triggering) + Len(BreakpointReport) + Len(Returned) + 2
    /\ TxBytes(Len(tx) - Len(Returned) - 1) = Returned \o <<LF>>

\* the fatal report of double_fault_handler, as transmitted
DoubleFaultReport ==
    <<LF>> \o BangLine \o <<LF>> \o DoubleFaultTitle \o <<LF>> \o CriticalError \o <<LF>>
        \o BangLine \o <<LF>> \o <<LF>>

\* C14: whenever vector 8 is raised after the table is loaded, at any step
\* of the interrupted context, the double-fault handler transmits its report
\* once and halts.  It cannot when it waits for SERIAL1 while the context it
\* interrupted holds the lock; the claim says no such state is reached, and
\* that a halted processor has transmitted the report as its last bytes.
C14_DoubleFaultReportsAndHalts ==
    /\ ~ ( /\ Running
           /\ Top.fn = "double_fault_handler"
           /\ AtLock(Top)
           /\ SERIAL1_locked
           /\ \E k \in 1..(Len(frames) - 1) : InCall(frames[k]) )
    /\ cpu = "halted" =>
          /\ Top.fn = "double_fault_handler"
          /\ TxBytes(Top.tx0) = DoubleFaultReport

\* C15: once the table is loaded the static IDT is never stored to again,
\* whatever is called afterwards, a further interrupts::init included.
C15_IdtNotStoredAfterLoad ==
    \A i \in 1..Len(idt_log), j \in 1..Len(idt_log) :
        i < j /\ idt_log[i] = "load" => idt_log[j] # "store"

\* the configuration serial::init programs
UartConfig == [ier |-> 0, dll |-> 1, dlm |-> 0, lcr |-> 3, fcr |-> 199, mcr |-> 11]

SerialInitRunning ==
    \E k \in 1..Len(frames) : frames[k].fn = "serial::init" /\ frames[k].pc = 1

\* C16: after serial::init the UART holds interrupt enable 0x00, divisor 1
\* (low 0x01, high 0x00), line control 0x03 with the divisor latch closed,
\* FIFO control 0xC7 and modem control 0x0B, and keeps them while later
\* operations transmit: each byte written at offset 0 is transmitted.
C16_SerialInitConfiguration ==
    (serial_inits > 0 /\ ~SerialInitRunning) =>
        /\ uart = UartConfig
        /\ \A k \in 1..Len(frames) :
              InCall(frames[k]) /\ Len(frames) = 1 =>
                  TxBytes(Len(tx) - frames[k].i) =
                      SubSeq(write_byte_calls(Statement(frames[k])), 1, frames[k].i)

\* C16 witness: serial::init has returned and a later operation has
\* transmitted its bytes.
C16_Witness ==
    /\ serial_inits = 1
    /\ frames = <<>>
    /\ uart = UartConfig
    /\ Len(tx) > 0
    /\ TxBytes(0) = InitializingIdt \o <<LF>> \o IdtInitialized \o <<LF>>

\* C17: in the kernel entry sequence serial::init completes first, exactly
\* once and before any byte is transmitted, then interrupts::init loads the
\* table, and only then the first console operation writes to the display.
C17_SerialThenTrapsThenConsole ==
    /\ Len(tx) > 0 => serial_inits = 1
    /\ idtr = "IDT" => serial_inits = 1
    /\ WRITER.buffer # InitialSurface => (serial_inits = 1 /\ idtr = "IDT")

\* a status value without the transmit-empty bit
IsBusyRead(ev) ==
    ev.op = "inb" /\ ev.port = COM1_PORT + LINE_STATUS_REG /\ (ev.value \div 32) % 2 = 0

\* C21: write_byte has no timeout.  Whatever the number of status reads
\* that found the bit clear, after such a read the call is still waiting:
\* it has not written the byte, has not returned, and SERIAL1 is held; so
\* with a UART that never presents the bit it never writes, never returns
\* and keeps the lock.  Each write_byte call that ended wrote the data
\* register exactly once, with its byte.  With a UART that eventually
\* presents the bit every operation returns.
C21_WriteByteNoTimeout ==
    /\ [] ( /\ (Len(port_io) > 0 /\ IsBusyRead(port_io[Len(port_io)])) =>
                /\ serial_pc = "wait"
                /\ SERIAL1_locked
                /\ Len(Transmitted) = serial_i
            /\ serial_pc # "idle" => SERIAL1_locked
            /\ serial_pc \in {"wait", "out"} => Len(Transmitted) = serial_i
            /\ serial_pc \in {"next", "idle"} =>
                /\ Len(Transmitted) = serial_i
                /\ serial_i > 0 =>
                      Transmitted[serial_i] = write_byte_calls(serial_call)[serial_i]
            /\ (SerialReturned /\ serial_call.op = "write_byte") =>
                  Transmitted = <<serial_call.byte>> )
    /\ (serial_pc # "idle" ~> SerialReturned)

\* C21 witness: write_byte has read the status busy as often as the model
\* allows and is still waiting, the lock held and nothing written.
C21_Witness ==
    /\ serial_call.op = "write_byte"
    /\ serial_pc = "wait"
    /\ polls = MaxPolls
    /\ Len(port_io) = MaxPolls
    /\ \A k \in 1..Len(port_io) : IsBusyRead(port_io[k])
    /\ SERIAL1_locked
    /\ Transmitted = <<>>

\* the table with exactly the two handlers bound
TwoHandlerTable ==
    [vector \in Vectors |->
        IF vector = 3 THEN "breakpoint_handler"
        ELSE IF vector = 8 THEN "double_fault_handler"
        ELSE "missing"]

\* a handler returns when its body does not end in the halt loop
Returns(fn) == Body(fn)[Len(Body(fn))].op # "hlt"

\* the trap table's state: a table whose two entries are populated exists
\* (in init's local or in IDT) once Built, the CPU has loaded one once
\* Installed
TableState ==
    IF idtr # "none" THEN "Installed"
    ELSE IF \/ IDT.is_some
            \/ \E k \in 1..Len(frames) :
                  frames[k].idt.is_some /\ frames[k].idt.value = TwoHandlerTable
         THEN "Built"
    ELSE "Uninitialized"

\* the order of the states
TableRank(state) ==
    IF state = "Uninitialized" THEN 0 ELSE IF state = "Built" THEN 1 ELSE 2

\* this step issues the load instruction
LoadIssued == Len(idt_log') = Len(idt_log) + 1 /\ idt_log'[Len(idt_log')] = "load"

\* C22: the trap table goes Uninitialized -> Built -> Installed in that
\* order, one state at a time and never back.  When the load instruction
\* is issued it is issued inside interrupts::init after the table was
\* created, its two entries set and the table stored, the table loaded is
\* the one in the static IDT, and in it vector 3 is bound to the returning
\* breakpoint handler, vector 8 to the double-fault handler that does not
\* return, and the other 254 vectors are missing.
C22_TableBuiltStoredThenLoaded ==
    [][ /\ TableRank(TableState') \in {TableRank(TableState), TableRank(TableState) + 1}
        /\ LoadIssued =>
            /\ TableState # "Uninitialized"
            /\ TableState' = "Installed"
            /\ Top.fn = "interrupts::init"
            /\ Len(idt_log) >= 4
            /\ SubSeq(idt_log, Len(idt_log) - 3, Len(idt_log))
                  = <<"new", "set_handler_fn", "set_handler_fn", "store">>
            /\ idtr' = "IDT"
            /\ IDT.is_some /\ IDT' = IDT
            /\ IDT.value[3] = "breakpoint_handler" /\ Returns(IDT.value[3])
            /\ IDT.value[8] = "double_fault_handler" /\ ~Returns(IDT.value[8])
            /\ Cardinality({vector \in Vectors : IDT.value[vector] = "missing"}) = 254
      ]_vars

\* C22 witness: init has just loaded the table; its local still holds what
\* it moved into IDT, and the CPU refers to IDT.
C22_Witness ==
    /\ Len(frames) > 0
    /\ Top.fn = "interrupts::init"
    /\ idt_log = <<"new", "set_handler_fn", "set_handler_fn", "store", "load">>
    /\ idtr = "IDT"
    /\ IDT.is_some
    /\ IDT.value = TwoHandlerTable
    /\ Top.idt.value = IDT.value

====
